---- MODULE Spec2Model ----
(***************************************************************************)
(* gemini-shell-wizard (src/main.go): a terminal assistant that sends a    *)
(* question to a completion service, prints the answer, extracts the       *)
(* fenced shell blocks of the answer and runs them after a confirmation.   *)
(*                                                                         *)
(* Text is modelled byte by byte: a string is a sequence of one-character  *)
(* strings, so that trimming, lower-casing, the two regular expressions    *)
(* and the overwrite of the cache file act on the bytes as the code does.  *)
(*                                                                         *)
(* Specifications:                                                         *)
(*   Spec         one invocation of main(), from the credential check to   *)
(*                the process exit                                         *)
(*   SpecExtract  extractCommands applied to bounded response texts        *)
(*   SpecEnv      successive invocations of getOrUpdateEnv on one cache    *)
(*                file, with out-of-band removal of the file               *)
(*   SpecRace     concurrent invocations of getOrUpdateEnv, os.ReadFile    *)
(*                and os.WriteFile taken apart into their system calls     *)
(***************************************************************************)
EXTENDS Integers, Sequences, FiniteSets, TLC

VARIABLES
    pc,            \* position of main() / of the harness of a pure function
    apiKey,        \* os.Getenv("GEMINI_SHELL_API_KEY"), "" when unset
    args,          \* os.Args[1:], a sequence of strings
    shellEnv,      \* os.Getenv("SHELL"), "" when unset
    isPiped,       \* standard input is not a character device
    stdinData,     \* the bytes waiting on standard input when it is a pipe
    stdinContent,  \* stdinContent of main(): what io.ReadAll(os.Stdin) returned
    cache,         \* the file at cacheFile (~/.gemini-env)
    cache0,        \* history: the cache file when the invocation started
    cacheEnv,      \* history: the cache file as getOrUpdateEnv left it
    envInfo,       \* envInfo of main(): the value getOrUpdateEnv returned
    probed,        \* history: generateEnvInfo was called
    wrote,         \* history: os.WriteFile was called on the cache file
    fullPrompt,    \* the prompt handed to GenerateContent
    netCalls,      \* history: number of GenerateContent calls
    svc,           \* history: how the completion client answered
    segs,          \* the blocks and prose the response text is made of
    response,      \* geminiResponse
    commands,      \* the result of extractCommands
    readFrom,      \* what the confirmer's scanner reads: "tty" or "stdin"
    line,          \* outcome of scanner.Scan(): [got, text], got "none" before it
    cstate,        \* state of the Execution Confirmer
    runs,          \* history: one record per command handed to exec.Command
    out,           \* history: the notices printed so far
    exitCode,      \* process exit status, "none" while running
    calls,         \* SpecEnv: getOrUpdateEnv invocations so far
    pinned,        \* SpecEnv: the text a call found or left readable in the cache, else <<>>
    procs,         \* SpecRace: the concurrent invocations of getOrUpdateEnv
    lastWriter     \* SpecRace: the invocation whose write(2) came last

inputVars == <<apiKey, args, shellEnv, isPiped, stdinData, stdinContent>>
envVars   == <<cache, cache0, cacheEnv, envInfo, probed, wrote>>
histVars  == <<calls, pinned>>
svcVars   == <<fullPrompt, netCalls, svc>>
respVars  == <<segs, response, commands>>
confVars  == <<readFrom, line, cstate, runs>>
exitVars  == <<out, exitCode>>
raceVars  == <<procs, lastWriter>>

vars == <<pc, inputVars, envVars, histVars, svcVars, respVars, confVars,
          exitVars, raceVars>>

(***************************************************************************)
(* Bounds of the model.                                                    *)
(***************************************************************************)
\* segments (blocks, prose) of a response text in SpecExtract
MaxSegs == 3
\* segments of the response text in Spec, so up to MaxCmds commands
MaxCmds == 3
\* successive getOrUpdateEnv invocations in SpecEnv
MaxCalls == 3
\* concurrent invocations in SpecRace
NumProcs == 3

(***************************************************************************)
(* Strings.                                                                *)
(***************************************************************************)
Min(S) == CHOOSE x \in S : \A y \in S : x <= y
Max(S) == CHOOSE x \in S : \A y \in S : x >= y

NL == <<"\n">>

\* unicode.IsSpace on the characters of the model ('\v', '\f', U+0085 and
\* U+00A0 are white space too and do not occur in it)
IsSpace(c) == c \in {" ", "\t", "\n", "\r"}

\* strings.TrimSpace
TrimSpace(s) ==
    LET keep == {i \in 1..Len(s) : ~IsSpace(s[i])}
    IN  IF keep = {} THEN <<>> ELSE SubSeq(s, Min(keep), Max(keep))

UpperCase == <<"A","B","C","D","E","F","G","H","I","J","K","L","M",
               "N","O","P","Q","R","S","T","U","V","W","X","Y","Z">>
LowerCase == <<"a","b","c","d","e","f","g","h","i","j","k","l","m",
               "n","o","p","q","r","s","t","u","v","w","x","y","z">>

\* unicode.ToLower on one character
LowerOf(c) ==
    IF \E k \in 1..26 : UpperCase[k] = c
    THEN LowerCase[CHOOSE k \in 1..26 : UpperCase[k] = c]
    ELSE c

\* strings.ToLower
ToLower(s) == [i \in 1..Len(s) |-> LowerOf(s[i])]

\* p occurs in s at position i
HasPrefixAt(s, i, p) ==
    /\ i >= 1
    /\ i + Len(p) - 1 <= Len(s)
    /\ SubSeq(s, i, i + Len(p) - 1) = p

RECURSIVE JoinWith(_, _)
\* strings.Join(ss, sep)
JoinWith(ss, sep) ==
    IF ss = <<>> THEN <<>>
    ELSE IF Len(ss) = 1 THEN ss[1]
    ELSE ss[1] \o sep \o JoinWith(Tail(ss), sep)

(***************************************************************************)
(* extractCommands: the regular expression                                 *)
(*     (?s)BT BT BT(?:bash|sh|zsh)?\n(.*?)\n BT BT BT                     *)
(* (BT stands for the backtick)                                            *)
(* matched as regexp.FindAllStringSubmatch matches it: leftmost match      *)
(* first, the alternatives of the tag in their order before the empty tag, *)
(* the lazy group as short as possible, and the next match searched from   *)
(* the end of the previous one.                                            *)
(***************************************************************************)
\* the backtick, one byte (0x60); the lexer of TLA+ has no string for it
BT == "BT"

Fence == <<BT, BT, BT>>

\* (?:bash|sh|zsh)? : the three tags in order, then no tag
TagAlternatives == << <<"b","a","s","h">>, <<"s","h">>, <<"z","s","h">>, <<>> >>

\* the matches of the expression that start at position s: k is the tag
\* alternative taken, b the first position of the group, e the position of
\* the "\n" before the closing marker
MatchesAt(text, s) ==
    UNION {
        {[k |-> k, e |-> e] :
            e \in {x \in s + Len(Fence) + Len(TagAlternatives[k]) + 1..Len(text) :
                      HasPrefixAt(text, x, NL \o Fence)}} :
        k \in {a \in 1..Len(TagAlternatives) :
                 HasPrefixAt(text, s, Fence \o TagAlternatives[a] \o NL)}}

\* the match the engine prefers among those: first alternative, then the
\* shortest group
PreferredMatch(text, s) ==
    LET ms == MatchesAt(text, s)
        k0 == Min({m.k : m \in ms})
        e0 == Min({m.e : m \in {x \in ms : x.k = k0}})
    IN  [k |-> k0, e |-> e0,
         b |-> s + Len(Fence) + Len(TagAlternatives[k0]) + 1]

RECURSIVE FindAllSubmatch(_, _)
\* re.FindAllStringSubmatch(text, -1), the group of each match, searching
\* from position from
FindAllSubmatch(text, from) ==
    LET starts == {s \in from..Len(text) : MatchesAt(text, s) # {}}
    IN  IF starts = {} THEN <<>>
        ELSE LET s == Min(starts)
                 m == PreferredMatch(text, s)
             IN  <<SubSeq(text, m.b, m.e - 1)>>
                    \o FindAllSubmatch(text, m.e + 1 + Len(Fence))

RECURSIVE TrimmedNonEmpty(_)
\* the loop of extractCommands: trim each group, keep the non-empty ones
TrimmedNonEmpty(groups) ==
    IF groups = <<>> THEN <<>>
    ELSE LET block == TrimSpace(Head(groups))
         IN  (IF block # <<>> THEN <<block>> ELSE <<>>)
                \o TrimmedNonEmpty(Tail(groups))

extractCommands(text) == TrimmedNonEmpty(FindAllSubmatch(text, 1))

(***************************************************************************)
(* Response texts: a response is a sequence of segments joined by line     *)
(* breaks. A segment is prose or a fenced block; kind "shell" is a closed  *)
(* block that is untagged or tagged bash, sh or zsh, kind "other" a closed *)
(* block with another tag, kind "unclosed" a block with no closing marker. *)
(* body is the content of the block between its markers.                   *)
(***************************************************************************)
Block(tag, body) == Fence \o tag \o NL \o body \o NL \o Fence

SegProse   == [kind |-> "prose", body |-> <<>>,
               text |-> <<"t","h","e","n"," ","r","u","n">>]
SegBash    == [kind |-> "shell", body |-> <<"l","s"," ","-","l","a">>,
               text |-> Block(<<"b","a","s","h">>, <<"l","s"," ","-","l","a">>)]
SegPlain   == [kind |-> "shell", body |-> <<"e","c","h","o"," ","h","i">>,
               text |-> Block(<<>>, <<"e","c","h","o"," ","h","i">>)]
SegPadded  == [kind |-> "shell", body |-> <<" ","p","w","d"," ">>,
               text |-> Block(<<"s","h">>, <<" ","p","w","d"," ">>)]
SegLines   == [kind |-> "shell", body |-> <<"c","d","\n","l","s">>,
               text |-> Block(<<"z","s","h">>, <<"c","d","\n","l","s">>)]
\* a block with a blank line as its content
SegBlank   == [kind |-> "shell", body |-> <<" ">>,
               text |-> Block(<<"s","h">>, <<" ">>)]
\* a block with only a tag and no content: the opening marker with its
\* tag, a line break, the closing marker
SegTagOnly == [kind |-> "shell", body |-> <<>>,
               text |-> Fence \o <<"b","a","s","h">> \o NL \o Fence]
SegPython  == [kind |-> "other", body |-> <<"x","=","1">>,
               text |-> Block(<<"p","y","t","h","o","n">>, <<"x","=","1">>)]
SegUnclosed == [kind |-> "unclosed", body |-> <<"r","m"," ","x">>,
                text |-> Fence \o <<"b","a","s","h">> \o NL \o <<"r","m"," ","x">>]

Segments == {SegProse, SegBash, SegPlain, SegPadded, SegLines, SegBlank,
             SegTagOnly, SegPython, SegUnclosed}

\* the response text made of the segments ss
ResponseText(ss) == JoinWith([i \in 1..Len(ss) |-> ss[i].text], NL)

RECURSIVE ShellBlockContents(_)
\* the trimmed, non-empty contents of the shell blocks of ss, in order
ShellBlockContents(ss) ==
    IF ss = <<>> THEN <<>>
    ELSE LET c == TrimSpace(Head(ss).body)
         IN  (IF Head(ss).kind = "shell" /\ c # <<>> THEN <<c>> ELSE <<>>)
                \o ShellBlockContents(Tail(ss))

(***************************************************************************)
(* The cache file and the host.                                            *)
(*                                                                         *)
(* A file is [exists, readable, data]. os.ReadFile fails on a missing or   *)
(* unreadable file. os.WriteFile is open(O_WRONLY|O_CREATE|O_TRUNC), which *)
(* empties the file, then write(2) of the bytes at offset 0, then close.   *)
(***************************************************************************)
NoFile == [exists |-> FALSE, readable |-> FALSE, data |-> <<>>]

FileOf(readable, data) == [exists |-> TRUE, readable |-> readable, data |-> data]

\* os.ReadFile(cacheFile)
ReadFile(f) ==
    IF f.exists /\ f.readable
    THEN [err |-> FALSE, content |-> f.data]
    ELSE [err |-> TRUE, content |-> <<>>]

\* open(2) with O_WRONLY|O_CREATE|O_TRUNC and mode 0644
OpenTrunc(f) ==
    [exists |-> TRUE, readable |-> IF f.exists THEN f.readable ELSE TRUE,
     data |-> <<>>]

\* write(2) of bytes at offset 0 of an open file: bytes beyond them stay
WriteAtStart(f, bytes) ==
    [f EXCEPT !.data = bytes \o SubSeq(f.data, Len(bytes) + 1, Len(f.data))]

\* the outcomes of os.WriteFile: the open fails, the write fails after the
\* open emptied the file, or both succeed
WriteOutcomes == {"ok", "openfail", "writefail"}

\* os.WriteFile(cacheFile, bytes, 0644) by one process with no other
\* process at work on the file
WriteFile(f, bytes, outcome) ==
    CASE outcome = "openfail"  -> f
      [] outcome = "writefail" -> OpenTrunc(f)
      [] OTHER                 -> WriteAtStart(OpenTrunc(f), bytes)

Quote == "\""
PrettyNamePrefix == <<"P","R","E","T","T","Y","_","N","A","M","E","=", Quote>>

\* the matches of PRETTY_NAME="(.*?)" starting at s, given by the position
\* e of the closing quote; the dot does not match a line break
PrettyMatchesAt(data, s) ==
    IF ~HasPrefixAt(data, s, PrettyNamePrefix) THEN {}
    ELSE {e \in s + Len(PrettyNamePrefix)..Len(data) :
            /\ data[e] = Quote
            /\ \A i \in s + Len(PrettyNamePrefix)..e - 1 : data[i] # "\n"}

\* re.FindStringSubmatch(data): <<>> when nothing matches, else <<whole
\* match, group>>
PrettyNameSubmatch(data) ==
    LET starts == {s \in 1..Len(data) : PrettyMatchesAt(data, s) # {}}
    IN  IF starts = {} THEN <<>>
        ELSE LET s == Min(starts)
                 e == Min(PrettyMatchesAt(data, s))
             IN  <<SubSeq(data, s, e), SubSeq(data, s + Len(PrettyNamePrefix), e - 1)>>

\* generateEnvInfo on a host [goos, goarch, shell, osRelease, swVers]:
\* osRelease is the outcome of reading /etc/os-release, swVers the output
\* of sw_vers
generateEnvInfo(h) ==
    <<"O","S",":"," ">> \o h.goos \o NL
    \o <<"A","r","c","h","i","t","e","c","t","u","r","e",":"," ">> \o h.goarch \o NL
    \o <<"S","h","e","l","l",":"," ">> \o h.shell \o NL
    \o (IF h.goos = <<"l","i","n","u","x">>
        THEN IF ~h.osRelease.err
             THEN <<"O","S"," ","R","e","l","e","a","s","e"," ","I","n","f","o",":","\n">>
                  \o (LET match == PrettyNameSubmatch(h.osRelease.data)
                      IN  IF Len(match) > 1 THEN match[2] \o NL
                          ELSE h.osRelease.data \o NL)
             ELSE <<>>
        ELSE IF h.goos = <<"d","a","r","w","i","n">>
        THEN <<"M","a","c","O","S"," ","V","e","r","s","i","o","n",":","\n">> \o h.swVers
        ELSE <<>>)

\* a variant of getOrUpdateEnv with a freshness check: the cached text is
\* returned only when it is what the host would be described as now
getOrUpdateEnvFresh(f, h, w) ==
    LET r == ReadFile(f)
        info == generateEnvInfo(h)
    IN  IF ~r.err /\ r.content = info
        THEN [ret |-> r.content, file |-> f, probed |-> TRUE, wrote |-> FALSE]
        ELSE [ret |-> info, file |-> WriteFile(f, info, w),
              probed |-> TRUE, wrote |-> TRUE]

\* getOrUpdateEnv with the cache file f, on host h, where os.WriteFile
\* ends with outcome w: the value returned, the file left, and whether the
\* host was probed and the file written
getOrUpdateEnv(f, h, w) ==
    LET r == ReadFile(f)
    IN  IF ~r.err /\ Len(r.content) > 0
        THEN [ret |-> r.content, file |-> f, probed |-> FALSE, wrote |-> FALSE]
        ELSE LET info == generateEnvInfo(h)
             IN  [ret |-> info, file |-> WriteFile(f, info, w),
                  probed |-> TRUE, wrote |-> TRUE]

(***************************************************************************)
(* Hosts of the model.                                                     *)
(***************************************************************************)
Zsh == <<"/","b","i","n","/","z","s","h">>
Sh  == <<"/","b","i","n","/","s","h">>

NoRelease == [err |-> TRUE, data |-> <<>>]

ArchRelease ==
    [err |-> FALSE,
     data |-> <<"I","D","=","a","r","c","h","\n">> \o PrettyNamePrefix
              \o <<"A","r","c","h"," ","L","i","n","u","x", Quote, "\n">>]

VoidRelease == [err |-> FALSE, data |-> <<"I","D","=","v","o","i","d","\n">>]

LinuxHost(shell, rel) ==
    [goos |-> <<"l","i","n","u","x">>, goarch |-> <<"a","m","d","6","4">>,
     shell |-> shell, osRelease |-> rel, swVers |-> <<>>]

DarwinHost(shell, vers) ==
    [goos |-> <<"d","a","r","w","i","n">>, goarch |-> <<"a","r","m","6","4">>,
     shell |-> shell, osRelease |-> NoRelease, swVers |-> vers]

OtherHost(shell) ==
    [goos |-> <<"f","r","e","e","b","s","d">>, goarch |-> <<"a","m","d","6","4">>,
     shell |-> shell, osRelease |-> NoRelease, swVers |-> <<>>]

Hosts ==
    {LinuxHost(sh, rel) : sh \in {Zsh, Sh, <<>>},
                          rel \in {NoRelease, ArchRelease, VoidRelease}}
    \cup {DarwinHost(Zsh, v) : v \in {<<>>, <<"1","4",".","1","\n">>}}
    \cup {OtherHost(Sh)}

\* the cache files an invocation may find: none, an empty one, one holding
\* the descriptor of an earlier run (readable or not)
StaleText == generateEnvInfo(LinuxHost(<<"/","b","i","n","/","k","s","h">>, ArchRelease))

StartFiles == {NoFile, FileOf(TRUE, <<>>), FileOf(TRUE, StaleText),
               FileOf(FALSE, StaleText)}

(***************************************************************************)
(* The parts of the state a specification does not use stay as they are    *)
(* here.                                                                   *)
(***************************************************************************)
InputsIdle ==
    /\ apiKey = <<>> /\ args = <<>> /\ shellEnv = <<>> /\ isPiped = FALSE
    /\ stdinData = <<>> /\ stdinContent = <<>>

EnvIdle == envInfo = <<>> /\ probed = FALSE /\ wrote = FALSE

HistIdle == calls = 0 /\ pinned = <<>>

SvcIdle == fullPrompt = <<>> /\ netCalls = 0 /\ svc = "unused"

RespIdle == segs = <<>> /\ response = <<>> /\ commands = <<>>

NoLine == [got |-> "none", text |-> <<>>]

ConfIdle == readFrom = "none" /\ line = NoLine /\ cstate = "none" /\ runs = <<>>

ExitIdle == out = {} /\ exitCode = "none"

RaceIdle == procs = <<>> /\ lastWriter = 0

(***************************************************************************)
(* SpecExtract: a response text is put together segment by segment and     *)
(* extractCommands is applied to it.                                       *)
(***************************************************************************)
InitExtract ==
    /\ pc = "compose"
    /\ InputsIdle /\ EnvIdle /\ HistIdle /\ SvcIdle /\ ConfIdle /\ ExitIdle /\ RaceIdle
    /\ cache = NoFile /\ cache0 = NoFile /\ cacheEnv = NoFile
    /\ segs = <<>> /\ response = <<>> /\ commands = <<>>

AddSegment ==
    /\ pc = "compose"
    /\ Len(segs) < MaxSegs
    /\ \E sg \in Segments : segs' = Append(segs, sg)
    /\ UNCHANGED <<pc, inputVars, envVars, histVars, svcVars, response,
                   commands, confVars, exitVars, raceVars>>

ApplyExtract ==
    /\ pc = "compose"
    /\ pc' = "extracted"
    /\ response' = ResponseText(segs)
    /\ commands' = extractCommands(ResponseText(segs))
    /\ UNCHANGED <<inputVars, envVars, histVars, svcVars, segs, confVars,
                   exitVars, raceVars>>

NextExtract == AddSegment \/ ApplyExtract

SpecExtract == InitExtract /\ [][NextExtract]_vars

(***************************************************************************)
(* Claims about extractCommands (SpecExtract).                             *)
(***************************************************************************)
\* the response is made of prose and closed shell blocks only
OnlyProseAndShellBlocks == \A i \in 1..Len(segs) : segs[i].kind \in {"prose", "shell"}

\* C4: for a response made of prose and closed blocks that are untagged or
\* tagged bash, sh or zsh, extractCommands returns exactly one candidate per
\* block with non-empty content, the trimmed content of that block, in the
\* order of appearance, no two blocks merged; with no such block the result
\* is empty.
C4_OneCandidatePerShellBlock ==
    (pc = "extracted" /\ OnlyProseAndShellBlocks)
        => commands = ShellBlockContents(segs)

\* C5: for every response, every candidate extractCommands returns is the
\* trimmed content of one shell-tagged or untagged closed block: content of
\* a block with another tag, prose between blocks, an empty block and an
\* unclosed block never produce or contribute to a candidate.
C5_CandidatesAreShellBlockContents ==
    pc = "extracted"
        => \A i \in 1..Len(commands) :
              \E j \in 1..Len(segs) :
                  /\ segs[j].kind = "shell"
                  /\ TrimSpace(segs[j].body) # <<>>
                  /\ commands[i] = TrimSpace(segs[j].body)


(***************************************************************************)
(* SpecEnv: successive invocations call getOrUpdateEnv on one cache file.  *)
(* Between them the host may change (another shell, another release file)  *)
(* and the file may be removed or emptied out-of-band.                     *)
(***************************************************************************)
\* f holds text that os.ReadFile returns and getOrUpdateEnv accepts
Cached(f) == f.exists /\ f.readable /\ f.data # <<>>

InitEnv ==
    /\ pc = "idle"
    /\ InputsIdle /\ EnvIdle /\ SvcIdle /\ RespIdle /\ ConfIdle /\ ExitIdle /\ RaceIdle
    /\ cache \in StartFiles /\ cache0 = cache /\ cacheEnv = cache
    /\ calls = 0
    /\ pinned = IF Cached(cache) THEN cache.data ELSE <<>>

\* one invocation's call of getOrUpdateEnv
EnvCall ==
    /\ pc \in {"idle", "called", "outofband"}
    /\ calls < MaxCalls
    /\ \E h \in Hosts, w \in WriteOutcomes :
          LET r == getOrUpdateEnv(cache, h, w)
          IN  /\ cache0' = cache
              /\ cache' = r.file
              /\ cacheEnv' = r.file
              /\ envInfo' = r.ret
              /\ probed' = r.probed
              /\ wrote' = r.wrote
              /\ pinned' = IF pinned # <<>> THEN pinned
                           ELSE IF Cached(r.file) THEN r.file.data ELSE <<>>
    /\ calls' = calls + 1
    /\ pc' = "called"
    /\ UNCHANGED <<inputVars, svcVars, respVars, confVars, exitVars, raceVars>>

\* the user removes or empties the cache file
OutOfBand ==
    /\ pc \in {"idle", "called"}
    /\ calls < MaxCalls
    /\ cache.exists
    /\ cache' \in {NoFile, FileOf(cache.readable, <<>>)}
    /\ pinned' = <<>>
    /\ pc' = "outofband"
    /\ UNCHANGED <<inputVars, cache0, cacheEnv, envInfo, probed, wrote, calls,
                   svcVars, respVars, confVars, exitVars, raceVars>>

NextEnv == EnvCall \/ OutOfBand

SpecEnv == InitEnv /\ [][NextEnv]_vars

\* C6: once the cache file holds non-empty readable text, every later call
\* of getOrUpdateEnv, until the file is removed or emptied out-of-band,
\* returns that text byte for byte, does not probe the host and does not
\* write the file; a call probes and writes exactly when the file is
\* absent, unreadable or empty.
C6_CacheRoundTrip ==
    pc = "called"
        => /\ Cached(cache0)
                => /\ envInfo = cache0.data
                   /\ ~probed /\ ~wrote
                   /\ cacheEnv = cache0
           /\ ~Cached(cache0) => probed /\ wrote
           /\ pinned # <<>> => envInfo = pinned

\* a second or later call returns the stale text the cache held, on a host
\* whose fresh descriptor would differ
C6_Witness ==
    /\ pc = "called" /\ calls >= 2
    /\ Cached(cache0) /\ envInfo = StaleText /\ cache = cache0
    /\ \A h \in Hosts : generateEnvInfo(h) # envInfo

(***************************************************************************)
(* SpecRace: NumProcs invocations on one host, each with its own SHELL,    *)
(* run getOrUpdateEnv at the same time with no cache file present. Each    *)
(* system call is one step; the calls succeed.                             *)
(***************************************************************************)
RaceHost(shell) == LinuxHost(shell, ArchRelease)

Procs == 1..NumProcs

InitRace ==
    /\ pc = "race"
    /\ InputsIdle /\ EnvIdle /\ HistIdle /\ SvcIdle /\ RespIdle /\ ConfIdle /\ ExitIdle
    /\ cache = NoFile /\ cache0 = NoFile /\ cacheEnv = NoFile
    /\ procs \in [Procs -> {[at |-> "read", shell |-> sh, info |-> <<>>, ret |-> <<>>] :
                               sh \in {Zsh, Sh}}]
    /\ lastWriter = 0

\* os.ReadFile and the test of its result
RaceRead(p) ==
    /\ procs[p].at = "read"
    /\ LET r == ReadFile(cache)
       IN  procs' = [procs EXCEPT ![p] =
                IF ~r.err /\ Len(r.content) > 0
                THEN [@ EXCEPT !.at = "done", !.ret = r.content]
                ELSE [@ EXCEPT !.at = "probe"]]
    /\ UNCHANGED <<pc, inputVars, envVars, histVars, svcVars, respVars,
                   confVars, exitVars, lastWriter>>

\* generateEnvInfo
RaceProbe(p) ==
    /\ procs[p].at = "probe"
    /\ procs' = [procs EXCEPT ![p] =
            [@ EXCEPT !.at = "open", !.info = generateEnvInfo(RaceHost(procs[p].shell))]]
    /\ UNCHANGED <<pc, inputVars, envVars, histVars, svcVars, respVars,
                   confVars, exitVars, lastWriter>>

\* os.WriteFile, first half: the open that creates or empties the file
RaceOpen(p) ==
    /\ procs[p].at = "open"
    /\ cache' = OpenTrunc(cache)
    /\ procs' = [procs EXCEPT ![p] = [@ EXCEPT !.at = "write"]]
    /\ UNCHANGED <<pc, inputVars, cache0, cacheEnv, envInfo, probed, wrote,
                   histVars, svcVars, respVars, confVars, exitVars, lastWriter>>

\* os.WriteFile, second half: the write at offset 0, and the return of info
RaceWrite(p) ==
    /\ procs[p].at = "write"
    /\ cache' = WriteAtStart(cache, procs[p].info)
    /\ lastWriter' = p
    /\ procs' = [procs EXCEPT ![p] = [@ EXCEPT !.at = "done", !.ret = procs[p].info]]
    /\ UNCHANGED <<pc, inputVars, cache0, cacheEnv, envInfo, probed, wrote,
                   histVars, svcVars, respVars, confVars, exitVars>>

NextRace == \E p \in Procs : RaceRead(p) \/ RaceProbe(p) \/ RaceOpen(p) \/ RaceWrite(p)

SpecRace == InitRace /\ [][NextRace]_vars

RaceDone == \A p \in Procs : procs[p].at = "done"

\* the descriptor of invocation p's own process
OwnDescriptor(p) == generateEnvInfo(RaceHost(procs[p].shell))

\* C8: under every interleaving of the concurrent invocations, each returns
\* a complete descriptor (the one of its own process, or the one another
\* invocation wrote, read whole from the cache), and when all have finished
\* the cache file holds the complete text of the last writer.
C8_RaceTolerated ==
    RaceDone
        => /\ \A p \in Procs : \E q \in Procs : procs[p].ret = OwnDescriptor(q)
           /\ lastWriter # 0 => cache.data = OwnDescriptor(lastWriter)


(***************************************************************************)
(* Spec: one invocation of main().                                         *)
(***************************************************************************)
\* what the invocation is started with
ApiKeys == {<<>>, <<"k","e","y">>}

ArgLists == {<<>>, << <<>> >>, << <<"f","i","x">>, <<"t","h","i","s">> >>}

PipeData == {<<>>, <<"E",":"," ","p","o","r","t"," ","i","n"," ","u","s","e","\n">>}

ShellEnvs == {<<>>, Zsh}

\* the hosts an invocation with SHELL set to sh may run on
MainHosts(sh) == {LinuxHost(sh, ArchRelease)}

\* the segments of the responses of the completion service
MainSegments == {SegProse, SegBash, SegPlain}

\* the lines the user may type at the confirmation prompt
Lines == {<<>>, <<" ">>, <<"y">>, <<"Y","e","s">>, <<" ","Y","E","S","\t">>,
          <<"n">>, <<"n","o">>, <<"y","e","s","s">>}

DefaultQuestion ==
    <<"E","x","p","l","a","i","n"," ","t","h","i","s"," ","o","u","t","p","u","t",
      " ","a","n","d"," ","s","u","g","g","e","s","t"," ","a"," ","f","i","x"," ",
      "i","f"," ","t","h","e","r","e"," ","i","s"," ","a","n"," ","e","r","r","o",
      "r",".">>

Init ==
    /\ pc = "start"
    /\ apiKey \in ApiKeys
    /\ args \in ArgLists
    /\ shellEnv \in ShellEnvs
    /\ isPiped \in BOOLEAN
    /\ stdinData \in (IF isPiped THEN PipeData ELSE {<<>>})
    /\ stdinContent = <<>>
    /\ cache \in StartFiles /\ cache0 = cache /\ cacheEnv = cache
    /\ EnvIdle /\ HistIdle /\ SvcIdle /\ RespIdle /\ ConfIdle /\ ExitIdle /\ RaceIdle

\* os.Exit(code), or the return of main() with code 0
Exit(code) == pc' = "exited" /\ exitCode' = code

\* main, step 1: the credential
CheckCredential ==
    /\ pc = "start"
    /\ IF apiKey = <<>>
       THEN /\ out' = out \cup {"credential error"}
            /\ Exit(1)
       ELSE /\ pc' = "client"
            /\ UNCHANGED exitVars
    /\ UNCHANGED <<inputVars, envVars, histVars, svcVars, respVars, confVars,
                   raceVars>>

\* main, step 1: genai.NewClient, which may fail
NewClient ==
    /\ pc = "client"
    /\ \/ /\ svc' = "clientErr"
          /\ out' = out \cup {"client error"}
          /\ Exit(1)
       \/ /\ svc' = "client"
          /\ pc' = "env"
          /\ UNCHANGED exitVars
    /\ UNCHANGED <<inputVars, envVars, histVars, fullPrompt, netCalls,
                   respVars, confVars, raceVars>>

\* main, step 2: envInfo := getOrUpdateEnv()
GetEnv ==
    /\ pc = "env"
    /\ \E h \in MainHosts(shellEnv), w \in WriteOutcomes :
          LET r == getOrUpdateEnv(cache, h, w)
          IN  /\ envInfo' = r.ret
              /\ cache' = r.file
              /\ cacheEnv' = r.file
              /\ probed' = r.probed
              /\ wrote' = r.wrote
    /\ pc' = "input"
    /\ UNCHANGED <<inputVars, cache0, histVars, svcVars, respVars, confVars,
                   exitVars, raceVars>>

\* the test of main() for an invocation with nothing to do
NothingToDoInverted(userPrompt, content) == userPrompt = <<>> /\ content # <<>>

NothingToDo(userPrompt, content) == userPrompt = <<>> /\ content = <<>>

\* the prompt of step 5 as the sequence of its labelled parts
AssemblePrompt(env, content, userPrompt) ==
    IF content # <<>>
    THEN <<"SystemPromptBase", "System Info:", env, "Input Context:", content,
           "User Question:", userPrompt>>
    ELSE <<"SystemPromptBase", "System Info:", env, "User Question:", userPrompt>>

\* main, steps 3 to 5: the question, the piped context, the usage hint, the
\* prompt
ReadInput ==
    /\ pc = "input"
    /\ LET userPrompt == JoinWith(args, <<" ">>)
           content == IF isPiped THEN stdinData ELSE <<>>
       IN  /\ stdinContent' = content
           /\ stdinData' = <<>>
           /\ IF NothingToDo(userPrompt, content)
              THEN /\ out' = out \cup {"usage"}
                   /\ Exit(0)
                   /\ UNCHANGED fullPrompt
              ELSE /\ fullPrompt' = AssemblePrompt(envInfo, content,
                                       IF userPrompt = <<>> THEN DefaultQuestion
                                       ELSE userPrompt)
                   /\ pc' = "call"
                   /\ UNCHANGED exitVars
    /\ UNCHANGED <<apiKey, args, shellEnv, isPiped, envVars, histVars,
                   netCalls, svc, respVars, confVars, raceVars>>

\* the responses of the completion service in this model
RECURSIVE SegSeqs(_)
SegSeqs(n) ==
    IF n = 0 THEN {<<>>}
    ELSE SegSeqs(n - 1)
         \cup {Append(ss, sg) : ss \in {x \in SegSeqs(n - 1) : Len(x) = n - 1},
                                sg \in MainSegments}

\* a variant of step 6 that reports the error of the service and goes on
\* with an empty response
CallGeminiNoExit ==
    /\ pc = "call"
    /\ netCalls' = netCalls + 1
    /\ \/ /\ svc' = "generateErr"
          /\ out' = out \cup {"service error", "response"}
          /\ segs' = <<>> /\ response' = <<>>
       \/ \E ss \in SegSeqs(MaxCmds) :
             /\ svc' = "answered"
             /\ segs' = ss
             /\ response' = ResponseText(ss)
             /\ out' = out \cup {"response"}
    /\ pc' = "extract"
    /\ UNCHANGED <<inputVars, envVars, histVars, fullPrompt, commands,
                   confVars, exitCode, raceVars>>

\* main, steps 6 and 7: GenerateContent, and the response printed
CallGemini ==
    /\ pc = "call"
    /\ netCalls' = netCalls + 1
    /\ \/ /\ svc' = "generateErr"
          /\ out' = out \cup {"service error"}
          /\ Exit(1)
          /\ UNCHANGED <<segs, response>>
       \/ \E ss \in SegSeqs(MaxCmds) :
             /\ svc' = "answered"
             /\ segs' = ss
             /\ response' = ResponseText(ss)
             /\ out' = out \cup {"response"}
             /\ pc' = "extract"
             /\ UNCHANGED exitCode
    /\ UNCHANGED <<inputVars, envVars, histVars, fullPrompt, commands,
                   confVars, raceVars>>

\* main, step 8: extractCommands, and the return when there is no command
Extract ==
    /\ pc = "extract"
    /\ commands' = extractCommands(response)
    /\ IF Len(commands') > 0
       THEN pc' = "confirm" /\ UNCHANGED exitVars
       ELSE Exit(0) /\ UNCHANGED out
    /\ UNCHANGED <<inputVars, envVars, histVars, svcVars, segs, response,
                   confVars, raceVars>>

\* confirmAndExecute: /dev/tty opened, or standard input in its place; the
\* numbered list and the prompt printed
Present ==
    /\ pc = "confirm"
    /\ \E ttyErr \in BOOLEAN : readFrom' = IF ttyErr THEN "stdin" ELSE "tty"
    /\ out' = out \cup {"suggested", "prompt"}
    /\ cstate' = "AwaitingDecision"
    /\ pc' = "scan"
    /\ UNCHANGED <<inputVars, envVars, histVars, svcVars, respVars, line, runs,
                   exitCode, raceVars>>

\* the outcomes of scanner.Scan(): end of input, or a line. Standard input
\* that was a pipe has been read to its end by io.ReadAll.
ScanOutcomes ==
    {[got |-> "eof", text |-> <<>>]}
    \cup (IF readFrom = "stdin" /\ isPiped THEN {}
          ELSE {[got |-> "line", text |-> l] : l \in Lines})

\* a variant of the test that takes the empty answer for the default yes
AffirmativeOrEmpty(input) == input = <<"y">> \/ input = <<"y","e","s">> \/ input = <<>>

\* the test of the answer, on the trimmed and lower-cased line
Affirmative(input) == input = <<"y">> \/ input = <<"y","e","s">>

\* confirmAndExecute: the confirmation line read and tested
Scan ==
    /\ pc = "scan"
    /\ \E l \in ScanOutcomes :
          /\ line' = l
          /\ IF l.got = "eof"
             THEN /\ cstate' = "Aborted"
                  /\ Exit(0)
                  /\ UNCHANGED out
             ELSE IF Affirmative(ToLower(TrimSpace(l.text)))
             THEN /\ cstate' = "Running"
                  /\ pc' = "run"
                  /\ UNCHANGED exitVars
             ELSE /\ cstate' = "Aborted"
                  /\ out' = out \cup {"Aborted."}
                  /\ Exit(0)
    /\ UNCHANGED <<inputVars, envVars, histVars, svcVars, respVars, readFrom,
                   runs, raceVars>>

\* the shell a command is run with
ShellFor(sh) == IF sh = <<>> THEN <<"s","h">> ELSE sh

\* cmd.Stdin = os.Stdin: what the child reads from
ChildStdin == IF isPiped THEN "drained pipe" ELSE "terminal"

\* the loop of confirmAndExecute, one iteration: exec.Command and the start
\* of the child by cmd.Run(), which may fail to launch it
StartCmd ==
    /\ pc = "run"
    /\ LET i == Len(runs) + 1
           r == [idx |-> i, text |-> commands[i], shell |-> ShellFor(shellEnv),
                 stdin |-> ChildStdin]
       IN  /\ i <= Len(commands)
           /\ \/ /\ runs' = Append(runs, r @@ [status |-> "launchfail"])
                 /\ out' = out \cup {"Executing", "Command failed"}
                 /\ cstate' = "Failed"
                 /\ Exit(0)
              \/ /\ runs' = Append(runs, r @@ [status |-> "running"])
                 /\ out' = out \cup {"Executing"}
                 /\ pc' = "wait"
                 /\ UNCHANGED <<cstate, exitCode>>
    /\ UNCHANGED <<inputVars, envVars, histVars, svcVars, respVars, readFrom,
                   line, raceVars>>

\* a variant of the loop that goes on to the next command after a failure
AfterRunNoBreak(failed, i, n) ==
    IF i < n THEN "Running"
    ELSE IF failed THEN "Failed" ELSE "Completed"

\* where the loop stands after command i of n has ended: the break on an
\* error, the next iteration, or the end of the list
AfterRun(failed, i, n) ==
    IF failed THEN "Failed"
    ELSE IF i < n THEN "Running" ELSE "Completed"

\* what a finished command may have done to the cache file
ChildEffects(f) == {f, NoFile}

\* the loop of confirmAndExecute: the child ends and cmd.Run() returns
ChildExit ==
    /\ pc = "wait"
    /\ \E failed \in BOOLEAN, f \in ChildEffects(cache) :
          LET i == Len(runs)
              next == AfterRun(failed, i, Len(commands))
          IN  /\ runs' = [runs EXCEPT ![i].status = IF failed THEN "nonzero" ELSE "ok"]
              /\ cache' = f
              /\ out' = IF failed THEN out \cup {"Command failed"} ELSE out
              /\ cstate' = next
              /\ IF next = "Running"
                 THEN pc' = "run" /\ UNCHANGED exitCode
                 ELSE Exit(0)
    /\ UNCHANGED <<inputVars, cache0, cacheEnv, envInfo, probed, wrote,
                   histVars, svcVars, respVars, readFrom, line, raceVars>>

Next ==
    \/ CheckCredential
    \/ NewClient
    \/ GetEnv
    \/ ReadInput
    \/ CallGemini
    \/ Extract
    \/ Present
    \/ Scan
    \/ StartCmd
    \/ ChildExit

Spec == Init /\ [][Next]_vars


(***************************************************************************)
(* Claims about one invocation (Spec).                                     *)
(***************************************************************************)
\* the confirmation line read was an affirmative answer
SaidYes ==
    /\ line.got # "none"
    /\ line.got = "line"
    /\ ToLower(TrimSpace(line.text)) \in {<<"y">>, <<"y","e","s">>}

\* a confirmation was asked for and the answer was not affirmative: another
\* line, an empty line, or end of input
Declined == line.got # "none" /\ ~SaidYes

\* neither a question nor piped context is supplied
NoInput ==
    /\ JoinWith(args, <<" ">>) = <<>>
    /\ stdinData = <<>>
    /\ stdinContent = <<>>

\* C1 as claimed: no command is executed unless the confirmation line was
\* affirmative, and when the confirmation is declined no command is
\* executed and the cache file is at exit what it was when the invocation
\* started.
C1_DeclineLeavesStartState ==
    /\ runs # <<>> => SaidYes
    /\ (pc = "exited" /\ Declined) => runs = <<>> /\ cache = cache0

\* C1 as amended: no command is executed unless the confirmation line was
\* affirmative; when the confirmation is declined no command is executed
\* and the cache file is at exit as getOrUpdateEnv left it before the
\* confirmation: the file the invocation found when that held readable,
\* non-empty text, and otherwise the file getOrUpdateEnv wrote.
C1_DeclineRunsNothing ==
    /\ runs # <<>> => SaidYes
    /\ (pc = "exited" /\ Declined)
          => /\ runs = <<>>
             /\ cache = cacheEnv
             /\ Cached(cache0) => cache = cache0
             /\ cache # cache0 => wrote

\* the user answers n on a first run: nothing is run, and the cache file
\* that was absent at the start exists at exit
C1_Witness ==
    /\ pc = "exited" /\ Declined /\ line.got = "line" /\ line.text = <<"n">>
    /\ runs = <<>>
    /\ cache0 = NoFile /\ cache.exists /\ cache.data = envInfo

\* C2: after an affirmative answer the commands are run one at a time in
\* list order, a command is started only after the one before it exited
\* with status zero, no command is started after a failure, each is run at
\* most once, and the confirmer ends in exactly one of Completed (all ran
\* successfully) and Failed, the process exiting 0 in both.
C2_SequentialStopAtFirstFailure ==
    SaidYes
        => /\ Len(runs) <= Len(commands)
           /\ \A i \in 1..Len(runs) :
                 /\ runs[i].idx = i
                 /\ runs[i].text = commands[i]
                 /\ i < Len(runs) => runs[i].status = "ok"
           /\ pc # "exited" => cstate = "Running"
           /\ pc = "exited"
                 => /\ exitCode = 0
                    /\ cstate \in {"Completed", "Failed"}
                    /\ cstate = "Completed"
                          <=> /\ Len(runs) = Len(commands)
                              /\ \A i \in 1..Len(runs) : runs[i].status = "ok"
                    /\ cstate = "Failed"
                          <=> /\ runs # <<>>
                              /\ runs[Len(runs)].status \in {"nonzero", "launchfail"}

\* three confirmed commands, the second fails: the third is never run and
\* the process exits 0
C2_Witness ==
    /\ pc = "exited" /\ SaidYes
    /\ Len(commands) = 3 /\ Len(runs) = 2
    /\ runs[1].status = "ok" /\ runs[2].status = "nonzero"
    /\ cstate = "Failed" /\ exitCode = 0

\* C3 as claimed: with neither a question nor piped context, whatever the
\* credential and the cache file, the usage hint is printed and the
\* completion service is not called.
C3_UsageWhateverCredential ==
    (pc = "exited" /\ NoInput) => "usage" \in out /\ netCalls = 0

\* C3 as amended: with neither a question nor piped context the completion
\* service is never called, whatever the credential and the cache file; the
\* usage hint is printed, and the process exits 0, exactly when the
\* credential is set and the client was created; with the credential
\* missing the credential error is printed instead and the exit is 1.
C3_UsageWhenClientReady ==
    NoInput
        => /\ netCalls = 0
           /\ pc = "exited"
                 => /\ "usage" \in out <=> (apiKey # <<>> /\ svc # "clientErr")
                    /\ "usage" \in out => exitCode = 0
                    /\ apiKey = <<>> => "credential error" \in out /\ exitCode = 1

\* an invocation with one empty argument and an empty pipe prints the usage
\* hint, having written the cache file on the way
C3_Witness ==
    /\ pc = "exited" /\ NoInput /\ isPiped /\ args = << <<>> >>
    /\ "usage" \in out /\ exitCode = 0 /\ netCalls = 0
    /\ wrote

\* C7: the exit status is non-zero exactly when the credential is missing
\* or the completion client fails (at its creation or at the request), and
\* then nothing is printed of a response, extracted, confirmed or run; it
\* is zero in every other run.
C7_ExitStatus ==
    pc = "exited"
        => /\ exitCode # 0 <=> (apiKey = <<>> \/ svc \in {"clientErr", "generateErr"})
           /\ exitCode # 0
                 => /\ response = <<>> /\ commands = <<>>
                    /\ cstate = "none" /\ line = NoLine /\ runs = <<>>
                    /\ out \cap {"response", "suggested", "prompt", "Executing"} = {}

\* the request fails with the credential set: exit 1
C7_Witness ==
    /\ pc = "exited" /\ apiKey # <<>> /\ svc = "generateErr" /\ exitCode = 1
    /\ netCalls = 1

\* C9: the answer is affirmative exactly when the trimmed, lower-cased line
\* is y or yes; every other outcome of the read, an empty line and end of
\* input included, is a decline: the abort notice is printed and nothing is
\* run.
C9_DeclinePrintsAbort ==
    (pc = "exited" /\ line.got # "none")
        => IF SaidYes
           THEN cstate \in {"Completed", "Failed"} /\ runs # <<>>
           ELSE cstate = "Aborted" /\ "Aborted." \in out /\ runs = <<>>

\* C10: the standard input of every child that was started is the
\* interactive terminal, never the pipe that was read to its end.
C10_ChildReadsTerminal ==
    \A i \in 1..Len(runs) :
        runs[i].status # "launchfail" => runs[i].stdin = "terminal"


====
